---- MODULE Spec2Model ----
\* Model of lib/monitoring/aws-redshift/RedshiftClusterMonitoring.ts:
\* the constructor (metric bindings, the two alarm loops, the consumer
\* hand-off) and the widget accessors of RedshiftClusterMonitoring.
EXTENDS Integers, Sequences, FiniteSets

VARIABLES props, failAt, pc, i, title, url, metrics, usageAnnotations,
          alarms, consumed, factoryCalls, lastSummary, lastWidgets, lastCreated,
          history

vars == <<props, failAt, pc, i, title, url, metrics, usageAnnotations,
          alarms, consumed, factoryCalls, lastSummary, lastWidgets, lastCreated,
          history>>

\* ---------------------------------------------------------------- bounds
\* Largest total number of threshold entries (disk-usage plus cpu-usage).
MaxEntries == 3

\* Largest number of widget accessor calls made on a constructed object.
MaxCalls == 3

\* ------------------------------------------------------- input alphabets
\* UsageThreshold values (only maxUsagePercent matters to this class).
UsageThreshold(percent) == [maxUsagePercent |-> percent]

\* Entries a caller puts into addDiskSpaceUsageAlarm and addCpuUsageAlarm.
\* Disambiguators are strings, kept as sequences of characters so that the
\* property enumeration order can be computed from their spelling.  No two
\* entries of one map share a threshold and no disambiguator has the same
\* threshold in both maps, so every entry is told apart by its value.
DiskSpaceUsageEntries ==
  { [key |-> <<"w">>, value |-> UsageThreshold(70)],
    [key |-> <<"0", "1">>, value |-> UsageThreshold(90)],
    [key |-> <<"2">>, value |-> UsageThreshold(80)],
    [key |-> <<"1", "0">>, value |-> UsageThreshold(95)] }

CpuUsageEntries ==
  { [key |-> <<"w">>, value |-> UsageThreshold(90)],
    [key |-> <<"0", "1">>, value |-> UsageThreshold(70)],
    [key |-> <<"2">>, value |-> UsageThreshold(95)],
    [key |-> <<"1", "0">>, value |-> UsageThreshold(80)] }

ClusterIdentifiers == { "cluster" }

\* ------------------------------------------------------ imported layout
\* Width, height and axis values are imported from ../../common; they are
\* carried by name.
ThirdWidth == "ThirdWidth"
QuarterWidth == "QuarterWidth"
HalfQuarterWidth == "HalfQuarterWidth"
DefaultGraphWidgetHeight == "DefaultGraphWidgetHeight"
DefaultSummaryWidgetHeight == "DefaultSummaryWidgetHeight"
PercentageAxisFromZeroToHundred == "PercentageAxisFromZeroToHundred"
CountAxisFromZero == "CountAxisFromZero"
TimeAxisMillisFromZero == "TimeAxisMillisFromZero"
BooleanAxisFromZeroToOne == "BooleanAxisFromZeroToOne"

\* Unit family a value axis of ../../common is meant for.
AxisFamily(axis) ==
  CASE axis = PercentageAxisFromZeroToHundred -> "percent"
    [] axis = CountAxisFromZero -> "count"
    [] axis = TimeAxisMillisFromZero -> "millis"
    [] axis = BooleanAxisFromZeroToOne -> "boolean"

\* ------------------------------------------- property enumeration order
Digits == { "0", "1", "2", "3", "4", "5", "6", "7", "8", "9" }

DigitValue(c) ==
  CASE c = "0" -> 0 [] c = "1" -> 1 [] c = "2" -> 2 [] c = "3" -> 3
    [] c = "4" -> 4 [] c = "5" -> 5 [] c = "6" -> 6 [] c = "7" -> 7
    [] c = "8" -> 8 [] c = "9" -> 9

\* Lexicographic order on digit strings of equal length.
RECURSIVE DigitsLess(_, _)
DigitsLess(a, b) ==
  IF a = <<>> THEN FALSE
  ELSE \/ DigitValue(a[1]) < DigitValue(b[1])
       \/ a[1] = b[1] /\ DigitsLess(Tail(a), Tail(b))

\* Numeric order on canonical decimal spellings.
NumericLess(a, b) ==
  \/ Len(a) < Len(b)
  \/ Len(a) = Len(b) /\ DigitsLess(a, b)

\* Spelling of 2^32 - 2, the largest integer index.
MaxIndexSpelling == <<"4", "2", "9", "4", "9", "6", "7", "2", "9", "4">>

\* A property key is an integer index when it is the canonical decimal
\* spelling of an integer in 0 .. 2^32 - 2.
IsArrayIndex(k) ==
  /\ Len(k) > 0
  /\ \A n \in 1..Len(k) : k[n] \in Digits
  /\ (Len(k) = 1 \/ k[1] # "0")
  /\ ~NumericLess(MaxIndexSpelling, k)

\* Keys of a record in own-property insertion order.
OwnKeys(entries) == [n \in 1..Len(entries) |-> entries[n].key]

RECURSIVE AscendingIndexKeys(_)
AscendingIndexKeys(S) ==
  IF S = {} THEN <<>>
  ELSE LET least == CHOOSE k \in S : \A o \in S : ~NumericLess(o, k)
       IN <<least>> \o AscendingIndexKeys(S \ {least})

IsNotArrayIndex(k) == ~IsArrayIndex(k)

\* Variant: the keys are visited in plain insertion order.
ForInKeys_InsertionOrder(record) ==
  IF ~record.defined THEN <<>> ELSE OwnKeys(record.entries)

\* Order in which `for (const d in record)` visits the keys: integer
\* indices in ascending numeric order, then the other string keys in
\* insertion order.  An absent record is not iterated at all.
ForInKeys(record) ==
  IF ~record.defined THEN <<>>
  ELSE LET keys == OwnKeys(record.entries)
       IN AscendingIndexKeys({ keys[n] : n \in { m \in 1..Len(keys) : IsArrayIndex(keys[m]) } })
          \o SelectSeq(keys, IsNotArrayIndex)

\* record[key]
Lookup(record, key) ==
  (CHOOSE e \in { record.entries[n] : n \in 1..Len(record.entries) } : e.key = key).value

\* --------------------------------------------------------------- inputs
RECURSIVE DistinctSeqs(_, _)
\* All sequences of at most n of the given entries, in any insertion order,
\* with pairwise distinct keys.
DistinctSeqs(n, available) ==
  IF n = 0 THEN { <<>> }
  ELSE { <<>> } \cup
       UNION { { <<e>> \o rest :
                   rest \in DistinctSeqs(n - 1, { o \in available : o.key # e.key }) } :
               e \in available }

\* An optional Record<string, UsageThreshold>: absent, or a plain object.
Records(n, available) ==
  { [defined |-> FALSE, entries |-> <<>>] } \cup
  { [defined |-> TRUE, entries |-> es] : es \in DistinctSeqs(n, available) }

EntryCount(p) == Len(p.addDiskSpaceUsageAlarm.entries) + Len(p.addCpuUsageAlarm.entries)

PropsSet ==
  { p \in [clusterIdentifier : ClusterIdentifiers,
           addDiskSpaceUsageAlarm : Records(MaxEntries, DiskSpaceUsageEntries),
           addCpuUsageAlarm : Records(MaxEntries, CpuUsageEntries),
           useCreatedAlarms : BOOLEAN] : EntryCount(p) <= MaxEntries }

\* ------------------------------------------------ external collaborators
\* MonitoringNamingStrategy.resolveHumanReadableName with only the
\* fallback construct name given.
ResolveHumanReadableName(p) == p.clusterIdentifier

GetRedshiftClusterUrl(clusterIdentifier) == <<"redshift-console", clusterIdentifier>>

\* Unit family of a metric of RedshiftClusterMetricFactory, as its name
\* states it.
MetricUnit(name) ==
  CASE name = "metricTotalConnectionCount" -> "count"
    [] name = "metricAverageDiskSpaceUsageInPercent" -> "percent"
    [] name = "metricAverageCpuUsageInPercent" -> "percent"
    [] name = "metricShortQueryDurationP90InMillis" -> "millis"
    [] name = "metricMediumQueryDurationP90InMillis" -> "millis"
    [] name = "metricLongQueryDurationP90InMillis" -> "millis"
    [] name = "metricReadLatencyP90InMillis" -> "millis"
    [] name = "metricWriteLatencyP90InMillis" -> "millis"
    [] name = "metricMaintenanceModeEnabled" -> "boolean"

\* The metric a factory method returns.
Metric(name) == [name |-> name, unit |-> MetricUnit(name)]

\* The metric fields before the constructor has assigned them.
NoMetrics == [connectionsMetric |-> <<>>]

UsageAnnotation(alarmProps, disambiguator) ==
  [value |-> alarmProps.maxUsagePercent, label |-> disambiguator]

AddMaxDiskUsagePercentAlarm(metric, alarmProps, disambiguator) ==
  [operation |-> "addMaxDiskUsagePercentAlarm", metric |-> metric,
   disambiguator |-> disambiguator, threshold |-> alarmProps,
   annotation |-> UsageAnnotation(alarmProps, disambiguator)]

AddMaxCpuUsagePercentAlarm(metric, alarmProps, disambiguator) ==
  [operation |-> "addMaxCpuUsagePercentAlarm", metric |-> metric,
   disambiguator |-> disambiguator, threshold |-> alarmProps,
   annotation |-> UsageAnnotation(alarmProps, disambiguator)]

\* ----------------------------------------------------------------- Init
Init ==
  /\ props \in PropsSet
  /\ failAt \in 0..EntryCount(props)
  /\ pc = "new"
  /\ i = 1
  /\ title = ""
  /\ url = <<>>
  /\ metrics = NoMetrics
  /\ usageAnnotations = <<>>
  /\ alarms = <<>>
  /\ consumed = <<>>
  /\ factoryCalls = 0
  /\ lastSummary = <<>>
  /\ lastWidgets = <<>>
  /\ lastCreated = <<>>
  /\ history = <<>>

\* ---------------------------------------------------------- constructor
\* Lines 61-93: naming, console url, empty annotation list, metrics.
Construct ==
  /\ pc = "new"
  /\ title' = ResolveHumanReadableName(props)
  /\ url' = GetRedshiftClusterUrl(props.clusterIdentifier)
  /\ usageAnnotations' = <<>>
  /\ metrics' =
       [connectionsMetric |-> Metric("metricTotalConnectionCount"),
        diskSpaceUsageMetric |-> Metric("metricAverageDiskSpaceUsageInPercent"),
        cpuUsageMetric |-> Metric("metricAverageCpuUsageInPercent"),
        shortQueryDurationMetric |-> Metric("metricShortQueryDurationP90InMillis"),
        mediumQueryDurationMetric |-> Metric("metricMediumQueryDurationP90InMillis"),
        longQueryDurationMetric |-> Metric("metricLongQueryDurationP90InMillis"),
        readLatencyMetric |-> Metric("metricReadLatencyP90InMillis"),
        writeLatencyMetric |-> Metric("metricWriteLatencyP90InMillis"),
        maintenanceModeMetric |-> Metric("metricMaintenanceModeEnabled")]
  /\ pc' = "disk"
  /\ i' = 1
  /\ UNCHANGED <<props, failAt, alarms, consumed, factoryCalls,
                 lastSummary, lastWidgets, lastCreated, history>>

\* Monitoring.addAlarm
AddAlarm(list, createdAlarm) == Append(list, createdAlarm)

\* Monitoring.createdAlarms
CreatedAlarms == alarms

\* One iteration of the loop of lines 95-104.
DiskSpaceUsageAlarmIteration ==
  /\ pc = "disk"
  /\ i <= Len(ForInKeys(props.addDiskSpaceUsageAlarm))
  /\ factoryCalls + 1 # failAt
  /\ LET disambiguator == ForInKeys(props.addDiskSpaceUsageAlarm)[i]
         alarmProps == Lookup(props.addDiskSpaceUsageAlarm, disambiguator)
         createdAlarm == AddMaxDiskUsagePercentAlarm(metrics.diskSpaceUsageMetric,
                                                     alarmProps, disambiguator)
     IN /\ usageAnnotations' = Append(usageAnnotations, createdAlarm.annotation)
        /\ alarms' = AddAlarm(alarms, createdAlarm)
  /\ factoryCalls' = factoryCalls + 1
  /\ i' = i + 1
  /\ UNCHANGED <<props, failAt, pc, title, url, metrics, consumed,
                 lastSummary, lastWidgets, lastCreated, history>>

\* Variant: the consumer is handed the alarms between the two loops.
DiskSpaceUsageLoopExit_Consumes ==
  /\ pc = "disk"
  /\ i > Len(ForInKeys(props.addDiskSpaceUsageAlarm))
  /\ pc' = "cpu"
  /\ i' = 1
  /\ consumed' = IF props.useCreatedAlarms THEN Append(consumed, alarms)
                 ELSE consumed
  /\ UNCHANGED <<props, failAt, title, url, metrics, usageAnnotations, alarms,
                 factoryCalls, lastSummary, lastWidgets, lastCreated, history>>

\* Line 95: the disk-usage loop is exhausted, the cpu-usage loop starts.
DiskSpaceUsageLoopExit ==
  /\ pc = "disk"
  /\ i > Len(ForInKeys(props.addDiskSpaceUsageAlarm))
  /\ pc' = "cpu"
  /\ i' = 1
  /\ UNCHANGED <<props, failAt, title, url, metrics, usageAnnotations, alarms,
                 consumed, factoryCalls, lastSummary, lastWidgets, lastCreated, history>>

\* Variant: the cpu-usage annotation is put in front of the list.
CpuUsageAlarmIteration_Unshift ==
  /\ pc = "cpu"
  /\ i <= Len(ForInKeys(props.addCpuUsageAlarm))
  /\ factoryCalls + 1 # failAt
  /\ LET disambiguator == ForInKeys(props.addCpuUsageAlarm)[i]
         alarmProps == Lookup(props.addCpuUsageAlarm, disambiguator)
         createdAlarm == AddMaxCpuUsagePercentAlarm(metrics.cpuUsageMetric,
                                                    alarmProps, disambiguator)
     IN /\ usageAnnotations' = <<createdAlarm.annotation>> \o usageAnnotations
        /\ alarms' = AddAlarm(alarms, createdAlarm)
  /\ factoryCalls' = factoryCalls + 1
  /\ i' = i + 1
  /\ UNCHANGED <<props, failAt, pc, title, url, metrics, consumed,
                 lastSummary, lastWidgets, lastCreated, history>>

\* Variant: the cpu-usage loop is a copy of the disk-usage loop body.
CpuUsageAlarmIteration_DiskFactory ==
  /\ pc = "cpu"
  /\ i <= Len(ForInKeys(props.addCpuUsageAlarm))
  /\ factoryCalls + 1 # failAt
  /\ LET disambiguator == ForInKeys(props.addCpuUsageAlarm)[i]
         alarmProps == Lookup(props.addCpuUsageAlarm, disambiguator)
         createdAlarm == AddMaxDiskUsagePercentAlarm(metrics.diskSpaceUsageMetric,
                                                     alarmProps, disambiguator)
     IN /\ usageAnnotations' = Append(usageAnnotations, createdAlarm.annotation)
        /\ alarms' = AddAlarm(alarms, createdAlarm)
  /\ factoryCalls' = factoryCalls + 1
  /\ i' = i + 1
  /\ UNCHANGED <<props, failAt, pc, title, url, metrics, consumed,
                 lastSummary, lastWidgets, lastCreated, history>>

\* One iteration of the loop of lines 106-115.
CpuUsageAlarmIteration ==
  /\ pc = "cpu"
  /\ i <= Len(ForInKeys(props.addCpuUsageAlarm))
  /\ factoryCalls + 1 # failAt
  /\ LET disambiguator == ForInKeys(props.addCpuUsageAlarm)[i]
         alarmProps == Lookup(props.addCpuUsageAlarm, disambiguator)
         createdAlarm == AddMaxCpuUsagePercentAlarm(metrics.cpuUsageMetric,
                                                    alarmProps, disambiguator)
     IN /\ usageAnnotations' = Append(usageAnnotations, createdAlarm.annotation)
        /\ alarms' = AddAlarm(alarms, createdAlarm)
  /\ factoryCalls' = factoryCalls + 1
  /\ i' = i + 1
  /\ UNCHANGED <<props, failAt, pc, title, url, metrics, consumed,
                 lastSummary, lastWidgets, lastCreated, history>>

\* Line 106: the cpu-usage loop is exhausted.
CpuUsageLoopExit ==
  /\ pc = "cpu"
  /\ i > Len(ForInKeys(props.addCpuUsageAlarm))
  /\ pc' = "consume"
  /\ UNCHANGED <<props, failAt, i, title, url, metrics, usageAnnotations, alarms,
                 consumed, factoryCalls, lastSummary, lastWidgets, lastCreated, history>>

\* Variant: the exception is caught and the loop goes on to the next entry.
AlarmFactoryThrows_Swallowed ==
  /\ \/ pc = "disk" /\ i <= Len(ForInKeys(props.addDiskSpaceUsageAlarm))
     \/ pc = "cpu" /\ i <= Len(ForInKeys(props.addCpuUsageAlarm))
  /\ factoryCalls + 1 = failAt
  /\ factoryCalls' = factoryCalls + 1
  /\ i' = i + 1
  /\ UNCHANGED <<props, failAt, pc, title, url, metrics, usageAnnotations, alarms,
                 consumed, lastSummary, lastWidgets, lastCreated, history>>

\* Lines 97 and 108: the usage alarm factory throws; the exception leaves
\* the constructor before the annotation is pushed or the alarm added.
AlarmFactoryThrows ==
  /\ \/ pc = "disk" /\ i <= Len(ForInKeys(props.addDiskSpaceUsageAlarm))
     \/ pc = "cpu" /\ i <= Len(ForInKeys(props.addCpuUsageAlarm))
  /\ factoryCalls + 1 = failAt
  /\ factoryCalls' = factoryCalls + 1
  /\ pc' = "failed"
  /\ UNCHANGED <<props, failAt, i, title, url, metrics, usageAnnotations, alarms,
                 consumed, lastSummary, lastWidgets, lastCreated, history>>

\* Line 117: props.useCreatedAlarms?.consume(this.createdAlarms())
UseCreatedAlarms ==
  /\ pc = "consume"
  /\ consumed' = IF props.useCreatedAlarms THEN Append(consumed, CreatedAlarms)
                 ELSE consumed
  /\ pc' = "done"
  /\ UNCHANGED <<props, failAt, i, title, url, metrics, usageAnnotations, alarms,
                 factoryCalls, lastSummary, lastWidgets, lastCreated, history>>

\* -------------------------------------------------------------- widgets
\* Lines 140-146
CreateTitleWidget ==
  [kind |-> "MonitoringHeaderWidget", family |-> "Redshift Cluster",
   title |-> title, goToLinkUrl |-> url]

\* Variant: the usage widget is built without the annotations.
CreateCpuAndDiskUsageWidget_NoAnnotations(width, height) ==
  [kind |-> "GraphWidget", width |-> width, height |-> height,
   title |-> "CPU/Disk Usage",
   left |-> <<metrics.cpuUsageMetric, metrics.diskSpaceUsageMetric>>,
   leftYAxis |-> PercentageAxisFromZeroToHundred,
   leftAnnotations |-> <<>>]

\* Lines 148-157
CreateCpuAndDiskUsageWidget(width, height) ==
  [kind |-> "GraphWidget", width |-> width, height |-> height,
   title |-> "CPU/Disk Usage",
   left |-> <<metrics.cpuUsageMetric, metrics.diskSpaceUsageMetric>>,
   leftYAxis |-> PercentageAxisFromZeroToHundred,
   leftAnnotations |-> usageAnnotations]

\* Lines 159-167
CreateConnectionsWidget(width, height) ==
  [kind |-> "GraphWidget", width |-> width, height |-> height,
   title |-> "Connections",
   left |-> <<metrics.connectionsMetric>>,
   leftYAxis |-> CountAxisFromZero]

\* Lines 169-181
CreateQueryDurationWidget(width, height) ==
  [kind |-> "GraphWidget", width |-> width, height |-> height,
   title |-> "Query Duration",
   left |-> <<metrics.shortQueryDurationMetric, metrics.mediumQueryDurationMetric,
              metrics.longQueryDurationMetric>>,
   leftYAxis |-> TimeAxisMillisFromZero]

\* Lines 183-191
CreateLatencyWidget(width, height) ==
  [kind |-> "GraphWidget", width |-> width, height |-> height,
   title |-> "Latency",
   left |-> <<metrics.readLatencyMetric, metrics.writeLatencyMetric>>,
   leftYAxis |-> TimeAxisMillisFromZero]

\* Variant: the maintenance flag is drawn on the count axis.
CreateMaintenanceWidget_CountAxis(width, height) ==
  [kind |-> "GraphWidget", width |-> width, height |-> height,
   title |-> "Maintenance",
   left |-> <<metrics.maintenanceModeMetric>>,
   leftYAxis |-> CountAxisFromZero]

\* Lines 193-201
CreateMaintenanceWidget(width, height) ==
  [kind |-> "GraphWidget", width |-> width, height |-> height,
   title |-> "Maintenance",
   left |-> <<metrics.maintenanceModeMetric>>,
   leftYAxis |-> BooleanAxisFromZeroToOne]

\* Lines 120-127: the value summaryWidgets() returns.
SummaryWidgetsResult ==
  << CreateTitleWidget,
     CreateCpuAndDiskUsageWidget(ThirdWidth, DefaultSummaryWidgetHeight),
     CreateConnectionsWidget(ThirdWidth, DefaultSummaryWidgetHeight),
     CreateQueryDurationWidget(ThirdWidth, DefaultSummaryWidgetHeight) >>

\* Variant: the detailed layout lacks the maintenance widget.
WidgetsResult_NoMaintenance ==
  << CreateTitleWidget,
     CreateCpuAndDiskUsageWidget(QuarterWidth, DefaultGraphWidgetHeight),
     CreateConnectionsWidget(QuarterWidth, DefaultGraphWidgetHeight),
     CreateQueryDurationWidget(QuarterWidth, DefaultGraphWidgetHeight),
     CreateLatencyWidget(HalfQuarterWidth, DefaultGraphWidgetHeight) >>

\* Lines 129-138: the value widgets() returns.
WidgetsResult ==
  << CreateTitleWidget,
     CreateCpuAndDiskUsageWidget(QuarterWidth, DefaultGraphWidgetHeight),
     CreateConnectionsWidget(QuarterWidth, DefaultGraphWidgetHeight),
     CreateQueryDurationWidget(QuarterWidth, DefaultGraphWidgetHeight),
     CreateLatencyWidget(HalfQuarterWidth, DefaultGraphWidgetHeight),
     CreateMaintenanceWidget(HalfQuarterWidth, DefaultGraphWidgetHeight) >>

\* Variant: building the usage widget appends the annotations once more.
SummaryWidgets_Pushes ==
  /\ pc = "done"
  /\ Len(history) < MaxCalls
  /\ history' = Append(history, "summaryWidgets")
  /\ lastSummary' = SummaryWidgetsResult
  /\ usageAnnotations' = usageAnnotations \o usageAnnotations
  /\ UNCHANGED <<props, failAt, pc, i, title, url, metrics,
                 alarms, consumed, factoryCalls, lastWidgets, lastCreated>>

\* A call of summaryWidgets() on the constructed object; lastSummary keeps
\* the returned value.
SummaryWidgets ==
  /\ pc = "done"
  /\ Len(history) < MaxCalls
  /\ history' = Append(history, "summaryWidgets")
  /\ lastSummary' = SummaryWidgetsResult
  /\ UNCHANGED <<props, failAt, pc, i, title, url, metrics, usageAnnotations,
                 alarms, consumed, factoryCalls, lastWidgets, lastCreated>>

\* Variant: widgets() hands the alarms to the consumer again.
Widgets_Consumes ==
  /\ pc = "done"
  /\ Len(history) < MaxCalls
  /\ history' = Append(history, "widgets")
  /\ lastWidgets' = WidgetsResult
  /\ consumed' = IF props.useCreatedAlarms THEN Append(consumed, alarms)
                 ELSE consumed
  /\ UNCHANGED <<props, failAt, pc, i, title, url, metrics, usageAnnotations,
                 alarms, factoryCalls, lastSummary, lastCreated>>

\* A call of widgets() on the constructed object.
Widgets ==
  /\ pc = "done"
  /\ Len(history) < MaxCalls
  /\ history' = Append(history, "widgets")
  /\ lastWidgets' = WidgetsResult
  /\ UNCHANGED <<props, failAt, pc, i, title, url, metrics, usageAnnotations,
                 alarms, consumed, factoryCalls, lastSummary, lastCreated>>

\* Sizes a caller passes to a single create*Widget operation.
WidgetSizes == { <<HalfQuarterWidth, DefaultSummaryWidgetHeight>> }

\* A direct call of one of the public create*Widget operations.
CreateWidget ==
  /\ pc = "done"
  /\ Len(history) < MaxCalls
  /\ history' = Append(history, "createWidget")
  /\ \E size \in WidgetSizes :
       \E w \in { CreateTitleWidget,
                  CreateCpuAndDiskUsageWidget(size[1], size[2]),
                  CreateConnectionsWidget(size[1], size[2]),
                  CreateQueryDurationWidget(size[1], size[2]),
                  CreateLatencyWidget(size[1], size[2]),
                  CreateMaintenanceWidget(size[1], size[2]) } :
         lastCreated' = <<w>>
  /\ UNCHANGED <<props, failAt, pc, i, title, url, metrics, usageAnnotations,
                 alarms, consumed, factoryCalls, lastSummary, lastWidgets>>

Next ==
  \/ Construct
  \/ DiskSpaceUsageAlarmIteration
  \/ DiskSpaceUsageLoopExit
  \/ CpuUsageAlarmIteration
  \/ CpuUsageLoopExit
  \/ AlarmFactoryThrows
  \/ UseCreatedAlarms
  \/ SummaryWidgets
  \/ Widgets
  \/ CreateWidget

Spec == Init /\ [][Next]_vars

\* ============================================================ properties
DiskRecord == props.addDiskSpaceUsageAlarm
CpuRecord == props.addCpuUsageAlarm
N == Len(DiskRecord.entries)
M == Len(CpuRecord.entries)

LoopsFinished == pc \in {"consume", "done"}

IsDiskAlarm(a) == a.operation = "addMaxDiskUsagePercentAlarm"
IsCpuAlarm(a) == a.operation = "addMaxCpuUsagePercentAlarm"

KeySet(record) == { record.entries[n].key : n \in 1..Len(record.entries) }

PositionOf(record, k) ==
  CHOOSE n \in 1..Len(record.entries) : record.entries[n].key = k

\* The annotations the entries of a record call for.
AnnotationsOf(record) ==
  { [value |-> record.entries[n].value.maxUsagePercent,
     label |-> record.entries[n].key] : n \in 1..Len(record.entries) }

\* C1: once both loops have run, usageAnnotations has exactly N+M entries,
\* one per configured entry, and every annotation of a disk-usage entry
\* sits at a lower index than every annotation of a cpu-usage entry.
C1_AnnotationCountAndOrder ==
  LoopsFinished =>
    /\ Len(usageAnnotations) = N + M
    /\ Len(alarms) = N + M
    /\ \A n \in 1..Len(usageAnnotations) : usageAnnotations[n] = alarms[n].annotation
    /\ \A n \in 1..N :
         IsDiskAlarm(alarms[n]) /\ usageAnnotations[n] \in AnnotationsOf(DiskRecord)
    /\ \A n \in (N + 1)..(N + M) :
         IsCpuAlarm(alarms[n]) /\ usageAnnotations[n] \in AnnotationsOf(CpuRecord)
    /\ { usageAnnotations[n] : n \in 1..N } = AnnotationsOf(DiskRecord)
    /\ { usageAnnotations[n] : n \in (N + 1)..(N + M) } = AnnotationsOf(CpuRecord)

C1_Witness ==
  /\ pc = "done"
  /\ N = 2
  /\ M = 1
  /\ Len(usageAnnotations) = 3
  /\ usageAnnotations[3] \notin AnnotationsOf(DiskRecord)

\* C2: in both layouts the second widget is the CPU/Disk Usage widget and
\* its annotation list is the whole usageAnnotations sequence, in order.
C2_UsageWidgetCarriesAllAnnotations ==
  /\ lastSummary # <<>> =>
       /\ lastSummary[2].title = "CPU/Disk Usage"
       /\ lastSummary[2].leftAnnotations = usageAnnotations
       /\ Len(lastSummary[2].leftAnnotations) = N + M
  /\ lastWidgets # <<>> =>
       /\ lastWidgets[2].title = "CPU/Disk Usage"
       /\ lastWidgets[2].leftAnnotations = usageAnnotations
       /\ Len(lastWidgets[2].leftAnnotations) = N + M

C2_Witness ==
  /\ lastSummary # <<>>
  /\ lastWidgets # <<>>
  /\ KeySet(DiskRecord) = { <<"w">> }
  /\ KeySet(CpuRecord) = { <<"0", "1">> }
  /\ Len(lastSummary[2].leftAnnotations) = 2
  /\ lastSummary[2].leftAnnotations[1].label = <<"w">>
  /\ lastWidgets[2].leftAnnotations[2].label = <<"0", "1">>

\* C3: a supplied consumer is invoked exactly once, after both loops, with
\* all N+M alarms; it is never invoked before that nor after a failure.
C3_ConsumerInvokedOnceWithAllAlarms ==
  /\ Len(consumed) <= 1
  /\ consumed # <<>> =>
       /\ pc = "done"
       /\ props.useCreatedAlarms
       /\ factoryCalls = N + M
       /\ consumed[1] = alarms
       /\ Len(consumed[1]) = N + M
       /\ \A k \in KeySet(DiskRecord) :
            \E n \in 1..Len(consumed[1]) :
              IsDiskAlarm(consumed[1][n]) /\ consumed[1][n].disambiguator = k
       /\ \A k \in KeySet(CpuRecord) :
            \E n \in 1..Len(consumed[1]) :
              IsCpuAlarm(consumed[1][n]) /\ consumed[1][n].disambiguator = k
  /\ (pc = "done" /\ props.useCreatedAlarms) => Len(consumed) = 1
  /\ pc = "failed" => consumed = <<>>

C3_Witness ==
  /\ pc = "done"
  /\ props.useCreatedAlarms
  /\ N >= 1
  /\ M >= 1
  /\ Len(consumed) = 1
  /\ Len(consumed[1]) = N + M

\* C4: exactly one alarm exists per (metric role, disambiguator) pair of the
\* configuration, no two alarms share that pair, and the two roles use
\* different factory operations on different metrics.
C4_OneAlarmPerRoleAndDisambiguator ==
  LoopsFinished =>
    /\ Len(alarms) = N + M
    /\ \A k \in KeySet(DiskRecord) :
         Cardinality({ n \in 1..Len(alarms) :
                         IsDiskAlarm(alarms[n]) /\ alarms[n].disambiguator = k }) = 1
    /\ \A k \in KeySet(CpuRecord) :
         Cardinality({ n \in 1..Len(alarms) :
                         IsCpuAlarm(alarms[n]) /\ alarms[n].disambiguator = k }) = 1
    /\ \A m, n \in 1..Len(alarms) :
         m # n => <<alarms[m].operation, alarms[m].disambiguator>>
                    # <<alarms[n].operation, alarms[n].disambiguator>>
    /\ \A n \in 1..Len(alarms) :
         \/ /\ IsDiskAlarm(alarms[n])
            /\ alarms[n].metric = metrics.diskSpaceUsageMetric
            /\ alarms[n].disambiguator \in KeySet(DiskRecord)
            /\ alarms[n].threshold = Lookup(DiskRecord, alarms[n].disambiguator)
         \/ /\ IsCpuAlarm(alarms[n])
            /\ alarms[n].metric = metrics.cpuUsageMetric
            /\ alarms[n].disambiguator \in KeySet(CpuRecord)
            /\ alarms[n].threshold = Lookup(CpuRecord, alarms[n].disambiguator)
    /\ metrics.diskSpaceUsageMetric # metrics.cpuUsageMetric

C4_Witness ==
  /\ pc = "done"
  /\ N = 2
  /\ KeySet(DiskRecord) \cap KeySet(CpuRecord) # {}
  /\ Len(alarms) = 3
  /\ \E m, n \in 1..Len(alarms) :
       /\ alarms[m].disambiguator = alarms[n].disambiguator
       /\ alarms[m].metric # alarms[n].metric

DisambiguatorsOf(list, Role(_)) ==
  LET chosen == SelectSeq(list, Role)
  IN [n \in 1..Len(chosen) |-> chosen[n].disambiguator]

\* C5 as stated: within one role the alarms follow the order in which the
\* caller inserted the entries, whatever the disambiguator strings are.
C5_InsertionOrderForAnyStrings ==
  LoopsFinished =>
    /\ DisambiguatorsOf(alarms, IsDiskAlarm) = OwnKeys(DiskRecord.entries)
    /\ DisambiguatorsOf(alarms, IsCpuAlarm) = OwnKeys(CpuRecord.entries)

\* a is visited before b by a for...in walk over record.
VisitedBefore(record, a, b) ==
  \/ IsArrayIndex(a) /\ IsArrayIndex(b) /\ NumericLess(a, b)
  \/ IsArrayIndex(a) /\ ~IsArrayIndex(b)
  \/ /\ ~IsArrayIndex(a)
     /\ ~IsArrayIndex(b)
     /\ PositionOf(record, a) < PositionOf(record, b)

\* C5 amended: within one role the alarms (and their annotations) follow
\* the for...in order of the map: integer-index disambiguators first, in
\* ascending numeric order, then the others in insertion order.
C5_ForInOrder ==
  /\ \A m, n \in 1..Len(alarms) :
       m < n =>
         /\ (IsDiskAlarm(alarms[m]) /\ IsDiskAlarm(alarms[n])) =>
              VisitedBefore(DiskRecord, alarms[m].disambiguator, alarms[n].disambiguator)
         /\ (IsCpuAlarm(alarms[m]) /\ IsCpuAlarm(alarms[n])) =>
              VisitedBefore(CpuRecord, alarms[m].disambiguator, alarms[n].disambiguator)
  /\ \A n \in 1..Len(alarms) :
       /\ n <= Len(usageAnnotations)
       /\ usageAnnotations[n].label = alarms[n].disambiguator
  /\ LoopsFinished =>
       /\ Len(DisambiguatorsOf(alarms, IsDiskAlarm)) = N
       /\ Len(DisambiguatorsOf(alarms, IsCpuAlarm)) = M
       /\ \A k \in KeySet(DiskRecord) :
            (\A o \in KeySet(DiskRecord) : ~IsArrayIndex(o)) =>
              DisambiguatorsOf(alarms, IsDiskAlarm)[PositionOf(DiskRecord, k)] = k

C5_Witness ==
  /\ pc = "done"
  /\ OwnKeys(DiskRecord.entries) = << <<"w">>, <<"1", "0">>, <<"2">> >>
  /\ DisambiguatorsOf(alarms, IsDiskAlarm) = << <<"2">>, <<"1", "0">>, <<"w">> >>

WidgetsSeen ==
  { lastSummary[n] : n \in 1..Len(lastSummary) }
    \cup { lastWidgets[n] : n \in 1..Len(lastWidgets) }
    \cup { lastCreated[n] : n \in 1..Len(lastCreated) }

GraphWidgetsSeen == { w \in WidgetsSeen : w.kind = "GraphWidget" }

MetricNames(w) == { w.left[n].name : n \in 1..Len(w.left) }

\* C6: every graph widget shows only metrics of the unit family of its
\* axis, with the fixed grouping of metrics per widget.
C6_AxisMatchesUnitFamily ==
  \A w \in GraphWidgetsSeen :
    /\ \A n \in 1..Len(w.left) : w.left[n].unit = AxisFamily(w.leftYAxis)
    /\ w.title \in {"CPU/Disk Usage", "Connections", "Query Duration",
                    "Latency", "Maintenance"}
    /\ w.title = "CPU/Disk Usage" =>
         /\ w.leftYAxis = PercentageAxisFromZeroToHundred
         /\ MetricNames(w) = {"metricAverageCpuUsageInPercent",
                              "metricAverageDiskSpaceUsageInPercent"}
    /\ w.title = "Connections" =>
         /\ w.leftYAxis = CountAxisFromZero
         /\ MetricNames(w) = {"metricTotalConnectionCount"}
    /\ w.title = "Query Duration" =>
         /\ w.leftYAxis = TimeAxisMillisFromZero
         /\ MetricNames(w) = {"metricShortQueryDurationP90InMillis",
                              "metricMediumQueryDurationP90InMillis",
                              "metricLongQueryDurationP90InMillis"}
    /\ w.title = "Latency" =>
         /\ w.leftYAxis = TimeAxisMillisFromZero
         /\ MetricNames(w) = {"metricReadLatencyP90InMillis",
                              "metricWriteLatencyP90InMillis"}
    /\ w.title = "Maintenance" =>
         /\ w.leftYAxis = BooleanAxisFromZeroToOne
         /\ MetricNames(w) = {"metricMaintenanceModeEnabled"}

C6_Witness ==
  /\ lastSummary # <<>>
  /\ lastWidgets # <<>>
  /\ Cardinality(GraphWidgetsSeen) = 8

GraphTitles(ws) == [n \in 1..(Len(ws) - 1) |-> ws[n + 1].title]

\* C7: summaryWidgets() returns the 4 widgets header, CPU/Disk Usage,
\* Connections, Query Duration and widgets() those followed by Latency and
\* Maintenance, for every configuration; with no threshold entries there are
\* no alarms and the usage widget has no annotations.
C7_LayoutShape ==
  /\ lastSummary # <<>> =>
       /\ Len(lastSummary) = 4
       /\ lastSummary[1].kind = "MonitoringHeaderWidget"
       /\ GraphTitles(lastSummary) = <<"CPU/Disk Usage", "Connections", "Query Duration">>
  /\ lastWidgets # <<>> =>
       /\ Len(lastWidgets) = 6
       /\ lastWidgets[1].kind = "MonitoringHeaderWidget"
       /\ GraphTitles(lastWidgets) = <<"CPU/Disk Usage", "Connections", "Query Duration",
                                       "Latency", "Maintenance">>
  /\ (pc = "done" /\ N + M = 0) =>
       /\ alarms = <<>>
       /\ lastSummary # <<>> => lastSummary[2].leftAnnotations = <<>>
       /\ lastWidgets # <<>> => lastWidgets[2].leftAnnotations = <<>>

C7_Witness ==
  /\ pc = "done"
  /\ N + M = 0
  /\ ~DiskRecord.defined
  /\ Len(lastSummary) = 4
  /\ Len(lastWidgets) = 6

\* C8: a later call of summaryWidgets() returns the same widgets as any
\* earlier call, and likewise for widgets(), whatever other accessor calls
\* came in between.
C8_LayoutIdempotent ==
  [][ /\ lastSummary # <<>> => lastSummary' = lastSummary
      /\ lastWidgets # <<>> => lastWidgets' = lastWidgets ]_vars

\* summaryWidgets() has been called again after a call of widgets().
C8_Witness ==
  /\ history = <<"summaryWidgets", "widgets", "summaryWidgets">>
  /\ lastSummary # <<>>
  /\ lastWidgets # <<>>
  /\ Len(lastSummary[2].leftAnnotations) >= 2

\* C9: when the alarm factory fails on the k-th entry, construction stops
\* there: the factory has been called k times and never again, alarms and
\* usageAnnotations hold the k-1 entries built before, and the consumer is
\* not invoked.
C9_FailFastNonAtomic ==
  (failAt >= 1 /\ factoryCalls >= failAt) =>
    /\ pc = "failed"
    /\ factoryCalls = failAt
    /\ Len(alarms) = failAt - 1
    /\ Len(usageAnnotations) = failAt - 1
    /\ \A n \in 1..Len(alarms) :
         /\ usageAnnotations[n] = alarms[n].annotation
         /\ n <= N => IsDiskAlarm(alarms[n]) /\ alarms[n].disambiguator \in KeySet(DiskRecord)
         /\ n > N => IsCpuAlarm(alarms[n]) /\ alarms[n].disambiguator \in KeySet(CpuRecord)
    /\ \A m, n \in 1..Len(alarms) :
         m # n => <<alarms[m].operation, alarms[m].disambiguator>>
                    # <<alarms[n].operation, alarms[n].disambiguator>>
    /\ consumed = <<>>
    /\ history = <<>>

C9_Witness ==
  /\ pc = "failed"
  /\ N = 2
  /\ M = 1
  /\ failAt = 2
  /\ Len(alarms) = 1
  /\ Len(usageAnnotations) = 1

\* C10: once the constructor has returned, no accessor call changes the
\* alarm collection, usageAnnotations or the metric bindings, and the
\* consumer is not invoked again.
C10_ReadOnlyAfterConstruction ==
  [][ pc = "done" =>
        /\ pc' = "done"
        /\ alarms' = alarms
        /\ usageAnnotations' = usageAnnotations
        /\ metrics' = metrics
        /\ consumed' = consumed
        /\ factoryCalls' = factoryCalls
        /\ title' = title
        /\ url' = url ]_vars

C10_Witness ==
  /\ pc = "done"
  /\ Len(history) >= 2
  /\ lastWidgets # <<>>
  /\ lastCreated # <<>>
  /\ Len(alarms) >= 2
  /\ Len(consumed) = 1

====
